---- MODULE Spec2Model ----
(***************************************************************************)
(* Model of github.com/zhenligod/thingo:                                   *)
(*   - package logger (src/logger/log.go): the package variables, the      *)
(*     configuration setters, initCore, InitLogger, LogSugar, the level    *)
(*     functions and Recover;                                              *)
(*   - the worker pool of spec.md (sections 3-7), with logger.Recover as   *)
(*     the fault isolation of its workers.                                 *)
(***************************************************************************)
EXTENDS Integers, Sequences, FiniteSets, TLC

\* ------------------------------------------------------------------ bounds
MaxCalls == 4          \* logger API calls made by the program
MaxSkip == 1           \* largest skip argument passed to InitLogger/LogSugar
NumGoroutines == 2     \* goroutines calling InitLogger/LogSugar concurrently
MaxWorkers == 2        \* largest workerCount
MaxCapacity == 1       \* largest queueCapacity
MaxTasks == 2          \* tasks submitted to the pool

\* --------------------------------------------------------------- constants
DefaultMaxAge == 7
DefaultMaxSize == 512

\* the nil pointer
NULL == [nil |-> TRUE]
NoPanic == "none"
NilDeref == "nil pointer dereference"
UserFault == "task fault"

\* zapcore.Level values
DebugLevel == 0 - 1
InfoLevel == 0
WarnLevel == 1
ErrorLevel == 2
DPanicLevel == 3
PanicLevel == 4
FatalLevel == 5

levelMap ==
  [l \in {"debug", "info", "warn", "error", "dpanic", "panic", "fatal"} |->
     CASE l = "debug" -> DebugLevel
       [] l = "info" -> InfoLevel
       [] l = "warn" -> WarnLevel
       [] l = "error" -> ErrorLevel
       [] l = "dpanic" -> DPanicLevel
       [] l = "panic" -> PanicLevel
       [] l = "fatal" -> FatalLevel]

\* paths are sequences of path components; "" is the empty sequence
DefaultLogFile == <<"go-zap.log">>
TempDir == <<"tmp">>
EmptyPath == << >>

\* inputs of the API calls
AgeInputs == {DefaultMaxAge, 30}
SizeInputs == {DefaultMaxSize, 64}
LevelInputs == {"debug", "panic", "verbose"}
FileInputs == {EmptyPath, <<"app.log">>}
DirInputs == {EmptyPath, <<"data">>}
SkipInputs == {<< >>} \cup {<<n>> : n \in (0 - 1)..MaxSkip}
Goroutines == 1..NumGoroutines
\* two goroutines submit concurrently
Submitters == {1, 2}
\* a task is <<submitter, number>>; NoTask is the absence of one
Tasks == Submitters \X (1..MaxTasks)
NoTask == <<0, 0>>
Policies == {"Block", "Reject", "Timeout"}

VARIABLES
  logMaxAge, logMaxSize, logCompress,
  logTraceFileLine, logLevel, logFileName, logDir,
  core, fLogger,
  sugar,          \* the logger last returned by LogSugar
  out,            \* records written to the log file through core
  terminal,       \* lines printed by the standard library logger
  panicking,      \* the panic pending in a goroutine
  alive,          \* "running", "crashed" (unrecovered panic), "exited" (os.Exit)
  calls,          \* number of API calls made
  initCoreRuns,   \* number of executions of initCore
  gpc, gop, gskip, \* position, function and argument of each concurrent caller
  \* the pool
  workerCount, queueCapacity, fullPolicy,
  state,          \* "Running", "Draining", "Stopped"
  items,          \* the queue: submitted, not yet started tasks
  closed,         \* the queue is closed
  active,         \* workers currently executing a task
  wstate, wtask,  \* each worker: "waiting" (in Pop), "running", "exited", "panicked"
  spc, stask,     \* each submitter: "idle" or "blocked" in Push
  sresult,        \* what the last Submit to return returned, and to whom
  nextTask,       \* per submitter, the number of its next task
  stpc, stResult, stopMode,  \* the caller of Stop
  accepted,       \* tasks whose Submit returned nil
  started,        \* tasks in the order the workers started them
  execCount,      \* how often each task's action has run
  discarded,      \* tasks dropped from the queue by an immediate Stop
  acceptedAtStop, \* the accepted tasks when Stop was first called
  late            \* tasks submitted after Stop was first called

confVars == <<logMaxAge, logMaxSize, logCompress, logTraceFileLine, logLevel,
              logFileName, logDir>>
concVars == <<gpc, gop, gskip>>
loggerVars == <<confVars, core, fLogger, sugar, out, terminal, panicking,
                alive, calls, initCoreRuns>>
poolVars == <<workerCount, queueCapacity, fullPolicy, state, items, closed,
              active, wstate, wtask, spc, stask, sresult, nextTask, stpc,
              stResult, stopMode, accepted, started, execCount,
              discarded, acceptedAtStop, late>>
vars == <<loggerVars, concVars, poolVars>>

\* filepath.Join: the non-empty elements, separated by the path separator
Join(dir, name) == dir \o name

\* getLevel
getLevel(lvl) == IF lvl \in DOMAIN levelMap THEN levelMap[lvl] ELSE InfoLevel

\* the value initCore assigns to logFileName
initCoreFileName == IF logDir = EmptyPath THEN Join(TempDir, logFileName)
                    ELSE Join(logDir, logFileName)

\* the value initCore assigns to core
initCoreCore(fileName) ==
  [Filename |-> fileName, MaxSize |-> logMaxSize, MaxAge |-> logMaxAge,
   Compress |-> logCompress, level |-> getLevel(logLevel)]

\* a condition that forgets that skip must be positive
withCallerNoSign(skip) == logTraceFileLine /\ Len(skip) > 0

\* the condition under which InitLogger and LogSugar add the caller
withCaller(skip) == logTraceFileLine /\ Len(skip) > 0 /\ skip[1] > 0

\* zap.New(core, options...)
zapNew(c, skip) ==
  IF withCaller(skip) THEN [core |-> c, addCaller |-> TRUE, callerSkip |-> skip[1]]
  ELSE [core |-> c, addCaller |-> FALSE, callerSkip |-> 0]

\* the record a logger writes for one entry
Entry(logger, lvl, msg, fields) ==
  [level |-> lvl, msg |-> msg, fields |-> fields, caller |-> logger.addCaller]

\* core.Enabled
Enabled(logger, lvl) == lvl >= logger.core.level

\* the log file after logger has been asked to log at lvl
Written(logger, lvl, msg, fields) ==
  IF Enabled(logger, lvl) THEN Append(out, Entry(logger, lvl, msg, fields))
  ELSE out

\* the panic a zap logger raises after writing at lvl (none below PanicLevel:
\* the loggers are built without zap.Development)
RaisedBy(lvl, msg) == IF lvl = PanicLevel THEN msg ELSE NoPanic

CanCall == alive = "running" /\ panicking = NoPanic /\ calls < MaxCalls

\* the pool before NewPool: no workers, nothing submitted
NoPool ==
  /\ workerCount = 0
  /\ queueCapacity = 0
  /\ fullPolicy = "Block"
  /\ state = "Stopped"
  /\ items = << >>
  /\ closed = TRUE
  /\ active = 0
  /\ wstate = << >>
  /\ wtask = << >>
  /\ spc = [s \in Submitters |-> "idle"]
  /\ stask = [s \in Submitters |-> NoTask]
  /\ sresult = [who |-> 0, result |-> "none"]
  /\ nextTask = [s \in Submitters |-> 1]
  /\ stpc = "idle"
  /\ stResult = "none"
  /\ stopMode = "none"
  /\ accepted = {}
  /\ started = << >>
  /\ execCount = [t \in Tasks |-> 0]
  /\ discarded = {}
  /\ acceptedAtStop = {}
  /\ late = {}

\* the package variables at program start
LoggerInit ==
  /\ logMaxAge = DefaultMaxAge
  /\ logMaxSize = DefaultMaxSize
  /\ logCompress = FALSE
  /\ logTraceFileLine = TRUE
  /\ logLevel = "debug"
  /\ logFileName = DefaultLogFile
  /\ logDir = EmptyPath
  /\ core = NULL
  /\ fLogger = NULL
  /\ sugar = NULL
  /\ out = << >>
  /\ terminal = 0
  /\ panicking = NoPanic
  /\ alive = "running"
  /\ calls = 0
  /\ initCoreRuns = 0
  /\ gpc = [g \in Goroutines |-> "idle"]
  /\ gop = [g \in Goroutines |-> "none"]
  /\ gskip = [g \in Goroutines |-> << >>]

Init == LoggerInit /\ NoPool

\* ------------------------------------------------------ configuration API
MaxAge(n) ==
  /\ CanCall
  /\ logMaxAge' = n
  /\ calls' = calls + 1
  /\ UNCHANGED <<logMaxSize, logCompress, logTraceFileLine, logLevel,
                 logFileName, logDir, core, fLogger, sugar, out, terminal,
                 panicking, alive, initCoreRuns, concVars, poolVars>>

MaxSize(n) ==
  /\ CanCall
  /\ logMaxSize' = n
  /\ calls' = calls + 1
  /\ UNCHANGED <<logMaxAge, logCompress, logTraceFileLine, logLevel,
                 logFileName, logDir, core, fLogger, sugar, out, terminal,
                 panicking, alive, initCoreRuns, concVars, poolVars>>

Compress(b) ==
  /\ CanCall
  /\ logCompress' = b
  /\ calls' = calls + 1
  /\ UNCHANGED <<logMaxAge, logMaxSize, logTraceFileLine, logLevel,
                 logFileName, logDir, core, fLogger, sugar, out, terminal,
                 panicking, alive, initCoreRuns, concVars, poolVars>>

TraceFileLine(b) ==
  /\ CanCall
  /\ logTraceFileLine' = b
  /\ calls' = calls + 1
  /\ UNCHANGED <<logMaxAge, logMaxSize, logCompress, logLevel,
                 logFileName, logDir, core, fLogger, sugar, out, terminal,
                 panicking, alive, initCoreRuns, concVars, poolVars>>

LogLevel(lvl) ==
  /\ CanCall
  /\ logLevel' = lvl
  /\ calls' = calls + 1
  /\ UNCHANGED <<logMaxAge, logMaxSize, logCompress, logTraceFileLine,
                 logFileName, logDir, core, fLogger, sugar, out, terminal,
                 panicking, alive, initCoreRuns, concVars, poolVars>>

SetLogFile(name) ==
  /\ CanCall
  /\ logFileName' = IF name = EmptyPath THEN logFileName ELSE name
  /\ calls' = calls + 1
  /\ UNCHANGED <<logMaxAge, logMaxSize, logCompress, logTraceFileLine,
                 logLevel, logDir, core, fLogger, sugar, out, terminal,
                 panicking, alive, initCoreRuns, concVars, poolVars>>

\* mkdirOk: the directory exists or os.MkdirAll created it
SetLogDir(dir, mkdirOk) ==
  /\ CanCall
  /\ IF dir = EmptyPath
       THEN logDir' = TempDir /\ terminal' = terminal
       ELSE IF mkdirOk
              THEN logDir' = dir /\ terminal' = terminal
              ELSE logDir' = logDir /\ terminal' = terminal + 1
  /\ calls' = calls + 1
  /\ UNCHANGED <<logMaxAge, logMaxSize, logCompress, logTraceFileLine,
                 logLevel, logFileName, core, fLogger, sugar, out,
                 panicking, alive, initCoreRuns, concVars, poolVars>>

\* ------------------------------------------------ InitLogger and LogSugar
\* "if core == nil { initCore() }"
EnsureCore ==
  IF core = NULL
    THEN /\ logFileName' = initCoreFileName
         /\ core' = initCoreCore(initCoreFileName)
         /\ initCoreRuns' = initCoreRuns + 1
    ELSE UNCHANGED <<logFileName, core, initCoreRuns>>

InitLogger(skip) ==
  /\ CanCall
  /\ EnsureCore
  /\ fLogger' = zapNew(core', skip)
  /\ calls' = calls + 1
  /\ UNCHANGED <<logMaxAge, logMaxSize, logCompress, logTraceFileLine,
                 logLevel, logDir, sugar, out, terminal, panicking, alive,
                 concVars, poolVars>>

\* a LogSugar that also installs its logger as the package handle
LogSugarSetsHandle(skip) ==
  /\ CanCall
  /\ EnsureCore
  /\ sugar' = zapNew(core', skip)
  /\ fLogger' = sugar'
  /\ calls' = calls + 1
  /\ UNCHANGED <<logMaxAge, logMaxSize, logCompress, logTraceFileLine,
                 logLevel, logDir, out, terminal, panicking, alive,
                 concVars, poolVars>>

LogSugar(skip) ==
  /\ CanCall
  /\ EnsureCore
  /\ sugar' = zapNew(core', skip)
  /\ calls' = calls + 1
  /\ UNCHANGED <<logMaxAge, logMaxSize, logCompress, logTraceFileLine,
                 logLevel, logDir, fLogger, out, terminal, panicking, alive,
                 concVars, poolVars>>

\* ---------------------------------------------------------- level functions
Debug ==
  /\ CanCall
  /\ terminal' = terminal + 2
  /\ calls' = calls + 1
  /\ UNCHANGED <<confVars, core, fLogger, sugar, out, panicking, alive,
                 initCoreRuns, concVars, poolVars>>

\* fLogger.<Level>(msg, parseFields(options)...): a nil fLogger panics with a
\* nil pointer dereference; Panic panics and Fatal exits after the write.
LogAt(lvl, msg, fields) ==
  IF fLogger = NULL
    THEN /\ panicking' = NilDeref
         /\ UNCHANGED <<out, alive>>
    ELSE /\ out' = Written(fLogger, lvl, msg, fields)
         /\ panicking' = RaisedBy(lvl, msg)
         /\ alive' = IF lvl = FatalLevel THEN "exited" ELSE alive

Info ==
  /\ CanCall
  /\ LogAt(InfoLevel, "msg", {})
  /\ calls' = calls + 1
  /\ UNCHANGED <<confVars, core, fLogger, sugar, terminal, initCoreRuns, concVars, poolVars>>

Warn ==
  /\ CanCall
  /\ LogAt(WarnLevel, "msg", {})
  /\ calls' = calls + 1
  /\ UNCHANGED <<confVars, core, fLogger, sugar, terminal, initCoreRuns, concVars, poolVars>>

Error ==
  /\ CanCall
  /\ LogAt(ErrorLevel, "msg", {})
  /\ calls' = calls + 1
  /\ UNCHANGED <<confVars, core, fLogger, sugar, terminal, initCoreRuns, concVars, poolVars>>

DPanic ==
  /\ CanCall
  /\ LogAt(DPanicLevel, "msg", {})
  /\ calls' = calls + 1
  /\ UNCHANGED <<confVars, core, fLogger, sugar, terminal, initCoreRuns, concVars, poolVars>>

Panic ==
  /\ CanCall
  /\ LogAt(PanicLevel, "msg", {})
  /\ calls' = calls + 1
  /\ UNCHANGED <<confVars, core, fLogger, sugar, terminal, initCoreRuns, concVars, poolVars>>

Fatal ==
  /\ CanCall
  /\ LogAt(FatalLevel, "msg", {})
  /\ calls' = calls + 1
  /\ UNCHANGED <<confVars, core, fLogger, sugar, terminal, initCoreRuns, concVars, poolVars>>

\* ------------------------------------------------------------------ Recover
\* a panic raised by the caller's own code
CallerPanics ==
  /\ CanCall
  /\ panicking' = UserFault
  /\ UNCHANGED <<confVars, core, fLogger, sugar, out, terminal, alive, calls,
                 initCoreRuns, concVars, poolVars>>

\* "defer logger.Recover()": runs when the calling function returns or panics.
\* recover() ends the pending panic; DPanic then logs it through fLogger.
RecoverBody(err) ==
  IF err # NoPanic
    THEN LogAt(DPanicLevel, "exec panic", {"error", "error_trace"})
    ELSE UNCHANGED <<out, panicking, alive>>

Recover ==
  /\ alive = "running"
  /\ calls < MaxCalls
  /\ RecoverBody(panicking)
  /\ calls' = calls + 1
  /\ UNCHANGED <<confVars, core, fLogger, sugar, terminal, initCoreRuns, concVars, poolVars>>

\* a panic nobody recovers terminates the program
Crash ==
  /\ alive = "running"
  /\ panicking # NoPanic
  /\ alive' = "crashed"
  /\ UNCHANGED <<confVars, core, fLogger, sugar, out, terminal, panicking,
                 calls, initCoreRuns, concVars, poolVars>>

Next ==
  \/ \E n \in AgeInputs : MaxAge(n)
  \/ \E n \in SizeInputs : MaxSize(n)
  \/ \E b \in BOOLEAN : Compress(b)
  \/ \E b \in BOOLEAN : TraceFileLine(b)
  \/ \E lvl \in LevelInputs : LogLevel(lvl)
  \/ \E name \in FileInputs : SetLogFile(name)
  \/ \E dir \in DirInputs, ok \in BOOLEAN : SetLogDir(dir, ok)
  \/ \E skip \in SkipInputs : InitLogger(skip)
  \/ \E skip \in SkipInputs : LogSugar(skip)
  \/ Debug
  \/ Info
  \/ Warn
  \/ Error
  \/ DPanic
  \/ Panic
  \/ Fatal
  \/ CallerPanics
  \/ Recover
  \/ Crash

Spec == Init /\ [][Next]_vars

\* ------------------------------------- InitLogger and LogSugar, statement by
\* statement, called from several goroutines (the package has no lock)
GoCall(g, op, skip) ==
  /\ alive = "running"
  /\ calls < MaxCalls
  /\ gpc[g] = "idle"
  /\ gpc' = [gpc EXCEPT ![g] = "check"]
  /\ gop' = [gop EXCEPT ![g] = op]
  /\ gskip' = [gskip EXCEPT ![g] = skip]
  /\ calls' = calls + 1
  /\ UNCHANGED <<confVars, core, fLogger, sugar, out, terminal, panicking,
                 alive, initCoreRuns, poolVars>>

\* "if core == nil"
GoCheckCore(g) ==
  /\ gpc[g] = "check"
  /\ gpc' = [gpc EXCEPT ![g] = IF core = NULL THEN "join" ELSE "build"]
  /\ UNCHANGED <<loggerVars, gop, gskip, poolVars>>

\* initCore: "logFileName = filepath.Join(...)"
GoJoin(g) ==
  /\ gpc[g] = "join"
  /\ logFileName' = initCoreFileName
  /\ gpc' = [gpc EXCEPT ![g] = "newcore"]
  /\ UNCHANGED <<logMaxAge, logMaxSize, logCompress, logTraceFileLine,
                 logLevel, logDir, core, fLogger, sugar, out, terminal,
                 panicking, alive, calls, initCoreRuns, gop, gskip, poolVars>>

\* initCore: "core = zapcore.NewCore(...)"
GoNewCore(g) ==
  /\ gpc[g] = "newcore"
  /\ core' = initCoreCore(logFileName)
  /\ initCoreRuns' = initCoreRuns + 1
  /\ gpc' = [gpc EXCEPT ![g] = "build"]
  /\ UNCHANGED <<confVars, fLogger, sugar, out, terminal, panicking, alive,
                 calls, gop, gskip, poolVars>>

\* "fLogger = zap.New(...)" or "return zap.New(...).Sugar()"
GoBuild(g) ==
  /\ gpc[g] = "build"
  /\ IF gop[g] = "InitLogger"
       THEN fLogger' = zapNew(core, gskip[g]) /\ sugar' = sugar
       ELSE sugar' = zapNew(core, gskip[g]) /\ fLogger' = fLogger
  /\ gpc' = [gpc EXCEPT ![g] = "idle"]
  /\ UNCHANGED <<confVars, core, out, terminal, panicking, alive, calls,
                 initCoreRuns, gop, gskip, poolVars>>

NextConc ==
  \/ \E dir \in DirInputs, ok \in BOOLEAN : SetLogDir(dir, ok)
  \/ \E g \in Goroutines, op \in {"InitLogger", "LogSugar"}, skip \in SkipInputs :
       GoCall(g, op, skip)
  \/ \E g \in Goroutines : GoCheckCore(g)
  \/ \E g \in Goroutines : GoJoin(g)
  \/ \E g \in Goroutines : GoNewCore(g)
  \/ \E g \in Goroutines : GoBuild(g)

SpecConc == Init /\ [][NextConc]_vars

\* ---------------------------------------------------------------- the pool
Workers == 1..workerCount
pending == Len(items)
WaitingWorkers == {w \in Workers : wstate[w] = "waiting"}

\* NewPool(workerCount, queueCapacity, fullPolicy): the workers are started
\* and wait on the queue
NewPool(n, c, policy) ==
  /\ workerCount = n
  /\ queueCapacity = c
  /\ fullPolicy = policy
  /\ state = "Running"
  /\ items = << >>
  /\ closed = FALSE
  /\ active = 0
  /\ wstate = [w \in 1..n |-> "waiting"]
  /\ wtask = [w \in 1..n |-> NoTask]
  /\ spc = [s \in Submitters |-> "idle"]
  /\ stask = [s \in Submitters |-> NoTask]
  /\ sresult = [who |-> 0, result |-> "none"]
  /\ nextTask = [s \in Submitters |-> 1]
  /\ stpc = "idle"
  /\ stResult = "none"
  /\ stopMode = "none"
  /\ accepted = {}
  /\ started = << >>
  /\ execCount = [t \in Tasks |-> 0]
  /\ discarded = {}
  /\ acceptedAtStop = {}
  /\ late = {}

\* the package variables after the program has called InitLogger(1)
LoggerReady ==
  /\ logMaxAge = DefaultMaxAge
  /\ logMaxSize = DefaultMaxSize
  /\ logCompress = FALSE
  /\ logTraceFileLine = TRUE
  /\ logLevel = "debug"
  /\ logDir = EmptyPath
  /\ logFileName = Join(TempDir, DefaultLogFile)
  /\ core = initCoreCore(logFileName)
  /\ fLogger = zapNew(core, <<1>>)
  /\ sugar = NULL
  /\ out = << >>
  /\ terminal = 0
  /\ panicking = NoPanic
  /\ alive = "running"
  /\ calls = 1
  /\ initCoreRuns = 1
  /\ gpc = [g \in Goroutines |-> "idle"]
  /\ gop = [g \in Goroutines |-> "none"]
  /\ gskip = [g \in Goroutines |-> << >>]

\* the pool is built by a program that has or has not initialised the logger
PoolInit ==
  /\ LoggerInit \/ LoggerReady
  /\ \E n \in 1..MaxWorkers, c \in 0..MaxCapacity, policy \in Policies :
       NewPool(n, c, policy)

\* a worker starts task t: it leaves Pop with t
Start(w, t) ==
  /\ wstate' = [wstate EXCEPT ![w] = "running"]
  /\ wtask' = [wtask EXCEPT ![w] = t]
  /\ active' = active + 1
  /\ started' = Append(started, t)

\* Push(t) can complete: there is room, or (capacity 0) a worker waits in Pop
CanPush == \/ Len(items) < queueCapacity
           \/ queueCapacity = 0 /\ WaitingWorkers # {}

\* Push(t) completes
Push(t) ==
  IF Len(items) < queueCapacity
    THEN /\ items' = Append(items, t)
         /\ UNCHANGED <<wstate, wtask, active, started>>
    ELSE /\ \E w \in WaitingWorkers : Start(w, t)
         /\ items' = items

\* a pool that still accepts while it drains
PoolOpenWhileDraining == state # "Stopped"

\* Submit accepts only while the pool is Running
PoolOpen == state = "Running"

\* the number of Submit calls made so far
Submitted == LET Sum[i \in 0..Cardinality(Submitters)] ==
                   IF i = 0 THEN 0 ELSE Sum[i - 1] + (nextTask[i] - 1)
             IN Sum[Cardinality(Submitters)]

\* Submit(action) by submitter s
Submit(s) ==
  /\ alive = "running"
  /\ spc[s] = "idle"
  /\ Submitted < MaxTasks
  /\ LET t == <<s, nextTask[s]>> IN
       /\ nextTask' = [nextTask EXCEPT ![s] = @ + 1]
       /\ late' = IF stopMode # "none" THEN late \cup {t} ELSE late
       /\ IF ~PoolOpen
            THEN /\ sresult' = [who |-> s, result |-> "PoolClosed"]
                 /\ UNCHANGED <<items, wstate, wtask, active, started, accepted,
                                spc, stask>>
            ELSE IF CanPush
              THEN /\ Push(t)
                   /\ accepted' = accepted \cup {t}
                   /\ sresult' = [who |-> s, result |-> "nil"]
                   /\ UNCHANGED <<spc, stask>>
              ELSE IF fullPolicy = "Reject"
                THEN /\ sresult' = [who |-> s, result |-> "QueueFull"]
                     /\ UNCHANGED <<items, wstate, wtask, active, started,
                                    accepted, spc, stask>>
                ELSE /\ spc' = [spc EXCEPT ![s] = "blocked"]
                     /\ stask' = [stask EXCEPT ![s] = t]
                     /\ UNCHANGED <<items, wstate, wtask, active, started,
                                    accepted, sresult>>
  /\ UNCHANGED <<loggerVars, concVars, workerCount, queueCapacity, fullPolicy,
                 state, closed, stpc, stResult, stopMode, execCount,
                 discarded, acceptedAtStop>>

\* a submitter blocked in Push wakes up: the pool has left Running, or there
\* is room
SubmitWake(s) ==
  /\ alive = "running"
  /\ spc[s] = "blocked"
  /\ IF ~PoolOpen
       THEN /\ sresult' = [who |-> s, result |-> "PoolClosed"]
            /\ UNCHANGED <<items, wstate, wtask, active, started, accepted>>
       ELSE /\ CanPush
            /\ Push(stask[s])
            /\ accepted' = accepted \cup {stask[s]}
            /\ sresult' = [who |-> s, result |-> "nil"]
  /\ spc' = [spc EXCEPT ![s] = "idle"]
  /\ stask' = [stask EXCEPT ![s] = NoTask]
  /\ UNCHANGED <<loggerVars, concVars, workerCount, queueCapacity, fullPolicy,
                 state, closed, nextTask, stpc, stResult,
                 stopMode, execCount, discarded, acceptedAtStop,
                 late>>

\* the timeout of a blocked Push expires (policy TimeoutAfter(d))
SubmitTimeout(s) ==
  /\ alive = "running"
  /\ spc[s] = "blocked"
  /\ fullPolicy = "Timeout"
  /\ sresult' = [who |-> s, result |-> "Timeout"]
  /\ spc' = [spc EXCEPT ![s] = "idle"]
  /\ stask' = [stask EXCEPT ![s] = NoTask]
  /\ UNCHANGED <<loggerVars, concVars, workerCount, queueCapacity, fullPolicy,
                 state, items, closed, active, wstate, wtask, nextTask,
                 stpc, stResult, stopMode, accepted, started,
                 execCount, discarded, acceptedAtStop, late>>

\* a Pop that leaves the head in the queue
DequeuedKeepsHead == items

\* the queue after Pop has taken its head
Dequeued == Tail(items)

\* Pop returns the head of the queue to worker w, which starts it
WorkerPop(w) ==
  /\ alive = "running"
  /\ wstate[w] = "waiting"
  /\ items # << >>
  /\ Start(w, Head(items))
  /\ items' = Dequeued
  /\ UNCHANGED <<loggerVars, concVars, workerCount, queueCapacity, fullPolicy,
                 state, closed, spc, stask, sresult, nextTask,
                 stpc, stResult, stopMode, accepted, execCount,
                 discarded, acceptedAtStop, late>>

\* a worker that forgets to leave the active count when its task faults
ActiveAfterRunLeaks(faults) == IF faults THEN active ELSE active - 1

\* the active count after a worker has finished a task
ActiveAfterRun(faults) == active - 1

\* worker w runs the action of its task under "defer logger.Recover()" and
\* goes back to Pop; a panic that leaves Recover ends the worker's goroutine.
\* faults: the action raises a runtime fault
WorkerRun(w, faults) ==
  /\ alive = "running"
  /\ wstate[w] = "running"
  /\ execCount' = [execCount EXCEPT ![wtask[w]] = @ + 1]
  /\ RecoverBody(IF faults THEN UserFault ELSE NoPanic)
  /\ wstate' = [wstate EXCEPT ![w] =
                  IF faults /\ panicking' # NoPanic THEN "panicked"
                  ELSE "waiting"]
  /\ wtask' = [wtask EXCEPT ![w] = NoTask]
  /\ active' = ActiveAfterRun(faults)
  /\ UNCHANGED <<confVars, core, fLogger, sugar, terminal, calls, initCoreRuns,
                 concVars, workerCount, queueCapacity, fullPolicy, state, items,
                 closed, spc, stask, sresult, nextTask, stpc,
                 stResult, stopMode, accepted, started, discarded,
                 acceptedAtStop, late>>

\* Pop returns the closed signal: the worker's loop ends
WorkerExit(w) ==
  /\ alive = "running"
  /\ wstate[w] = "waiting"
  /\ closed
  /\ items = << >>
  /\ wstate' = [wstate EXCEPT ![w] = "exited"]
  /\ UNCHANGED <<loggerVars, concVars, workerCount, queueCapacity, fullPolicy,
                 state, items, closed, active, wtask, spc, stask, sresult,
                 nextTask, stpc, stResult, stopMode,
                 accepted, started, execCount, discarded, acceptedAtStop,
                 late>>

\* Stop(graceful): the first call closes the queue (and, when not graceful,
\* discards what waits in it); every call then waits for the workers
Stop(graceful) ==
  /\ alive = "running"
  /\ stpc = "idle"
  /\ stpc' = "waiting"
  /\ IF state = "Running"
       THEN /\ state' = "Draining"
            /\ closed' = TRUE
            /\ stopMode' = IF graceful THEN "graceful" ELSE "immediate"
            /\ acceptedAtStop' = accepted
            /\ IF graceful
                 THEN UNCHANGED <<items, discarded>>
                 ELSE /\ items' = << >>
                      /\ discarded' = {items[i] : i \in 1..Len(items)}
       ELSE UNCHANGED <<state, closed, stopMode, acceptedAtStop, items, discarded>>
  /\ UNCHANGED <<loggerVars, concVars, workerCount, queueCapacity, fullPolicy,
                 active, wstate, wtask, spc, stask, sresult, nextTask,
                 stResult, accepted, started, execCount, late>>

\* Draining -> Stopped: the queue is closed and empty and every worker's loop
\* has exited
Finish ==
  /\ alive = "running"
  /\ state = "Draining"
  /\ items = << >>
  /\ \A w \in Workers : wstate[w] = "exited"
  /\ state' = "Stopped"
  /\ UNCHANGED <<loggerVars, concVars, workerCount, queueCapacity, fullPolicy,
                 items, closed, active, wstate, wtask, spc, stask, sresult,
                 nextTask, stpc, stResult, stopMode,
                 accepted, started, execCount, discarded, acceptedAtStop,
                 late>>

\* Stop returns Stopped
StopReturn ==
  /\ alive = "running"
  /\ stpc = "waiting"
  /\ state = "Stopped"
  /\ stpc' = "idle"
  /\ stResult' = "Stopped"
  /\ UNCHANGED <<loggerVars, concVars, workerCount, queueCapacity, fullPolicy,
                 state, items, closed, active, wstate, wtask, spc, stask,
                 sresult, nextTask, stopMode, accepted,
                 started, execCount, discarded, acceptedAtStop, late>>

\* the timeout of Stop expires; the workers go on in the background
StopTimeout ==
  /\ alive = "running"
  /\ stpc = "waiting"
  /\ state # "Stopped"
  /\ stpc' = "idle"
  /\ stResult' = "ShutdownTimeout"
  /\ UNCHANGED <<loggerVars, concVars, workerCount, queueCapacity, fullPolicy,
                 state, items, closed, active, wstate, wtask, spc, stask,
                 sresult, nextTask, stopMode, accepted,
                 started, execCount, discarded, acceptedAtStop, late>>

PoolNext ==
  \/ \E s \in Submitters : Submit(s)
  \/ \E s \in Submitters : SubmitWake(s)
  \/ \E s \in Submitters : SubmitTimeout(s)
  \/ \E w \in Workers : WorkerPop(w)
  \/ \E w \in Workers, faults \in BOOLEAN : WorkerRun(w, faults)
  \/ \E w \in Workers : WorkerExit(w)
  \/ \E graceful \in BOOLEAN : Stop(graceful)
  \/ Finish
  \/ StopReturn
  \/ StopTimeout
  \/ Crash

PoolSpec == PoolInit /\ [][PoolNext]_vars

\* the scheduler runs every goroutine that can take a step
PoolFairness ==
  /\ \A w \in 1..MaxWorkers : WF_vars(w \in Workers /\ WorkerPop(w))
  /\ \A w \in 1..MaxWorkers : WF_vars(w \in Workers /\ \E faults \in BOOLEAN : WorkerRun(w, faults))
  /\ \A w \in 1..MaxWorkers : WF_vars(w \in Workers /\ WorkerExit(w))
  /\ WF_vars(Finish)
  /\ WF_vars(StopReturn)
  /\ WF_vars(Crash)

FairPoolSpec == PoolInit /\ [][PoolNext]_vars /\ PoolFairness

\* ================================================================== claims
Last(seq) == seq[Len(seq)]
RunningWorkers == {w \in Workers : wstate[w] = "running"}
Executed == {t \in Tasks : execCount[t] >= 1}
StartedTasks == {started[i] : i \in 1..Len(started)}

\* the pool has drained: nothing was discarded, nothing waits, nobody runs
Drained ==
  /\ stopMode # "immediate"
  /\ items = << >>
  /\ RunningWorkers = {}

TaskFaultIsolated ==
  /\ alive # "crashed"
  /\ \A w \in Workers : wstate[w] # "panicked"

\* C3: after Stop(graceful=true) every task accepted before the call is
\* eventually executed, a Submit made after the call returns PoolClosed, and
\* when Stop has returned Stopped nothing is pending and every worker exited.
GracefulStopDrains ==
  /\ \A t \in Tasks :
       (stopMode = "graceful" /\ t \in acceptedAtStop) ~> (execCount[t] >= 1)
  /\ [][\A s \in Submitters :
          stopMode # "none" /\ nextTask'[s] # nextTask[s]
            => sresult' = [who |-> s, result |-> "PoolClosed"]]_vars
  /\ [](stResult = "Stopped" =>
          pending = 0 /\ \A w \in Workers : wstate[w] = "exited")

\* C4: a task is accepted only while the pool is Running, a Submit called in
\* another state returns PoolClosed, the state never returns to Running, no
\* task submitted after Stop is ever accepted or run, and the tasks an
\* immediate Stop found in the queue are never started.
SubmitStopConsistent ==
  /\ [][accepted' # accepted => state = "Running"]_vars
  /\ [][\A s \in Submitters :
          state # "Running" /\ nextTask'[s] # nextTask[s]
            => sresult' = [who |-> s, result |-> "PoolClosed"]]_vars
  /\ [][state # "Running" => state' # "Running"]_vars
  /\ [](\A t \in late : t \notin accepted /\ t \notin StartedTasks
                        /\ execCount[t] = 0)
  /\ [](\A t \in discarded : t \notin StartedTasks /\ execCount[t] = 0)
  /\ [](StartedTasks \subseteq accepted)

\* an immediate Stop discarded a waiting task and a later Submit was refused
SubmitStopWitness ==
  /\ stopMode = "immediate"
  /\ discarded # {}
  /\ late # {}
  /\ sresult.result = "PoolClosed"

\* C5: active is the number of workers executing a task and never exceeds
\* workerCount; once the pool is Stopped no task is dequeued or started.
ActiveWithinWorkers ==
  /\ [](active = Cardinality(RunningWorkers) /\ active <= workerCount)
  /\ [][state = "Stopped" => started' = started /\ items' = items]_vars

\* several workers, all of them busy
ActiveWithinWorkersWitness ==
  /\ workerCount > 1
  /\ active = workerCount

\* C6: Recover with a pending panic writes exactly one DPanic record
\* "exec panic" with the fields error and error_trace and ends the panic;
\* with no pending panic it writes nothing and changes no package state.
RecoverCapturesPanic ==
  [][Recover =>
       IF panicking # NoPanic
         THEN /\ Len(out') = Len(out) + 1
              /\ SubSeq(out', 1, Len(out)) = out
              /\ Last(out').level = DPanicLevel
              /\ Last(out').msg = "exec panic"
              /\ Last(out').fields = {"error", "error_trace"}
              /\ panicking' = NoPanic
              /\ alive' = "running"
         ELSE UNCHANGED <<confVars, core, fLogger, sugar, out, terminal,
                          panicking, alive, initCoreRuns>>]_vars

\* C7: InitLogger and LogSugar build a logger with caller information exactly
\* when logTraceFileLine is true at the call and skip[0] is given and positive.
CallerIffTraceAndSkip ==
  [][\A skip \in SkipInputs :
       /\ InitLogger(skip) =>
            (fLogger'.addCaller <=>
               (logTraceFileLine /\ Len(skip) > 0 /\ skip[1] > 0))
       /\ LogSugar(skip) =>
            (sugar'.addCaller <=>
               (logTraceFileLine /\ Len(skip) > 0 /\ skip[1] > 0))]_vars

\* InitLogger(1) added the caller; after TraceFileLine(false), LogSugar(1) did
\* not
CallerIffWitness ==
  /\ fLogger # NULL
  /\ sugar # NULL
  /\ fLogger.addCaller
  /\ ~logTraceFileLine
  /\ ~sugar.addCaller

\* C8: initCore runs at most once, so core is assigned once and the log file
\* path is the directory followed by the file name.
InitCoreAtMostOnce ==
  /\ initCoreRuns <= 1
  /\ core # NULL => Len(core.Filename) = 2

\* C9: fLogger, once set, is never nil again and the level functions never
\* find it nil; only InitLogger writes fLogger.
HandleSetOnlyByInitLogger ==
  /\ [][fLogger # NULL => fLogger' # NULL]_vars
  /\ [](fLogger # NULL => panicking # NilDeref)
  /\ [][fLogger' # fLogger => \E skip \in SkipInputs : InitLogger(skip)]_vars

\* after LogSugar alone core is initialised and fLogger is still nil
HandleStillNilWitness ==
  /\ core # NULL
  /\ sugar # NULL
  /\ fLogger = NULL
  /\ calls = MaxCalls

====
